---------------------------- MODULE Spec2Model ----------------------------
(***************************************************************************)
(* A model of three components of go-kafka's vendored client code:         *)
(*                                                                         *)
(*   - siesta/conn.go: connectionPool (Borrow / Return / connect), a       *)
(*     bounded blocking pool guarded by one mutex and one condition        *)
(*     variable.  Specification: Spec (safety), FairSpec (liveness).       *)
(*   - go_kafka_client/low_level_client.go: SaramaClient.Fetch with        *)
(*     filterPartitionData and collectMessages.  Specification: FetchSpec. *)
(*   - go_kafka_client/avro_encoder_decoder.go: KafkaAvroEncoder.Encode    *)
(*     and KafkaAvroDecoder.Decode.  Specification: CodecSpec.             *)
(***************************************************************************)
EXTENDS Integers, Sequences, FiniteSets, TLC

(***************************************************************************)
(* Bounds of the model.                                                    *)
(***************************************************************************)
\* Number of goroutines calling Borrow / Return concurrently.
NumProcs == 3
\* Largest pool capacity (the size argument of newConnectionPool).
MaxSize == 2
\* Largest number of Returns of a connection the caller does not hold.
MaxStray == 1

\* Largest offset in a fetched batch and largest requested offset.
MaxOffset == 4
\* Largest number of top-level entries of a fetched batch.
MaxBatch == 3
\* Largest number of entries of the inner batch of a wrapper entry.
MaxInner == 2

Procs == 1..NumProcs

\* "No goroutine": the value of lock when the mutex is free.
NoProc == 0
\* A *net.TCPConn that this pool never opened (Return accepts any pointer).
Foreign == 0
\* The nil *net.TCPConn.
NilConn == -1

NoErr == "nil"
ConnectErrs == {"ResolveTCPAddrErr", "DialTCPErr"}

VARIABLES
    \* ---- connectionPool (conn.go:24-33) ----
    size,          \* this.size
    conns,         \* this.conns
    connections,   \* this.connections, the idle queue
    lock,          \* this.lock: NoProc when free, else the goroutine holding it
    \* ---- the goroutines using the pool ----
    pc,            \* where each goroutine is: "out" (in no call), "wait" (in
                   \* Wait()), "woken" (made runnable by Broadcast, going for
                   \* the mutex), "connect" (in connect(), holding the mutex)
    held,          \* the connections each goroutine got from Borrow and has not returned
    blocked,       \* whether a goroutine's current Borrow has been in Wait()
    \* ---- observation of the pool's history ----
    ev,            \* the last Borrow / Return that completed
    strays,        \* the number of Returns of a connection the caller did not hold
    \* ---- SaramaClient.Fetch (low_level_client.go:86-131): the last call ----
    fcall,         \* its arguments and what the cluster answered
    fdata,         \* data.MsgSet.Messages of the response block after the call
    fres,          \* what it returned: [messages, err]
    refreshes,     \* the topics it passed to client.RefreshTopicMetadata
    requests,      \* the blocks of the fetch requests it sent to the leader
    \* ---- KafkaAvroEncoder / KafkaAvroDecoder (avro_encoder_decoder.go) ----
    registry,      \* the schemas the schema registry has, in the order registered
    enc,           \* the last Encode: its argument and what it returned
    dec,           \* the last Decode: its argument, what it returned, the
                   \* ids it passed to GetByID
    \* ---- the hooks of LowLevelClient (low_level_client.go:133-150, 264-276) ----
    goff,          \* the last GetAvailableOffset: its client, its arguments,
                   \* what the offset query answered and what it returned
    cls            \* the last IsOffsetOutOfRange: its client, its argument
                   \* and what it returned

poolVars == <<size, conns, connections, lock, pc, held, blocked, ev, strays>>

fetchVars == <<fcall, fdata, fres, refreshes, requests>>

codecVars == <<registry, enc, dec>>

clientVars == <<goff, cls>>

vars == <<poolVars, fetchVars, codecVars, clientVars>>

\* ev.op: "none", "borrow" or "return"; ev.err: what Borrow returned as err;
\* ev.blocked: the Borrow had been in Wait(); ev.opened: the Borrow opened a
\* new connection; ev.afterFail: the call before it was a Borrow that failed;
\* ev.accepted: the Return enqueued its connection.
NoEvent == [op |-> "none", err |-> NoErr, blocked |-> FALSE, opened |-> FALSE,
            afterFail |-> FALSE, accepted |-> FALSE]

\* newConnectionPool: conns = 0, an empty idle queue, a free mutex.  The
\* capacity is positive: a pool is made to hold connections.
PoolInit ==
    /\ size \in 1..MaxSize
    /\ conns = 0
    /\ connections = <<>>
    /\ lock = NoProc
    /\ pc = [p \in Procs |-> "out"]
    /\ held = [p \in Procs |-> {}]
    /\ blocked = [p \in Procs |-> FALSE]
    /\ ev = NoEvent
    /\ strays = 0

(***************************************************************************)
(* connectionPool.Borrow                                                   *)
(***************************************************************************)
\* Mutant of MustWait: the capacity test off by one.
MustWaitOffByOne == conns > size /\ Len(connections) = 0

\* The loop condition of Borrow (conn.go:52).
MustWait == conns >= size /\ Len(connections) = 0

\* Mutant of TakeIdle: the head is handed out and left in the queue.
TakeIdleNoDequeue(p) ==
    /\ held' = [held EXCEPT ![p] = @ \cup {Head(connections)}]
    /\ pc' = [pc EXCEPT ![p] = "out"]
    /\ blocked' = [blocked EXCEPT ![p] = FALSE]
    /\ lock' = NoProc
    /\ ev' = [op |-> "borrow", err |-> NoErr, blocked |-> blocked[p],
              opened |-> FALSE, afterFail |-> FALSE, accepted |-> FALSE]
    /\ UNCHANGED <<size, conns, connections, strays>>

\* Mutant of TakeIdle: the connection returned last is handed out.
TakeIdleNewest(p) ==
    /\ connections' = SubSeq(connections, 1, Len(connections) - 1)
    /\ held' = [held EXCEPT ![p] = @ \cup {connections[Len(connections)]}]
    /\ pc' = [pc EXCEPT ![p] = "out"]
    /\ blocked' = [blocked EXCEPT ![p] = FALSE]
    /\ lock' = NoProc
    /\ ev' = [op |-> "borrow", err |-> NoErr, blocked |-> blocked[p],
              opened |-> FALSE, afterFail |-> FALSE, accepted |-> FALSE]
    /\ UNCHANGED <<size, conns, strays>>

\* Borrow hands the head of the idle queue to p (conn.go:56-58) and returns.
TakeIdle(p) ==
    /\ connections' = Tail(connections)
    /\ held' = [held EXCEPT ![p] = @ \cup {Head(connections)}]
    /\ pc' = [pc EXCEPT ![p] = "out"]
    /\ blocked' = [blocked EXCEPT ![p] = FALSE]
    /\ lock' = NoProc
    /\ ev' = [op |-> "borrow", err |-> NoErr, blocked |-> blocked[p],
              opened |-> FALSE, afterFail |-> FALSE, accepted |-> FALSE]
    /\ UNCHANGED <<size, conns, strays>>

\* The body of Borrow from the loop test on, run with the mutex held:
\* Wait() (which releases the mutex), or take the head of the idle queue,
\* or go on to connect() still holding the mutex (conn.go:52-60).
BorrowBody(p) ==
    IF MustWait
    THEN /\ pc' = [pc EXCEPT ![p] = "wait"]
         /\ blocked' = [blocked EXCEPT ![p] = TRUE]
         /\ lock' = NoProc
         /\ UNCHANGED <<size, conns, connections, held, ev, strays>>
    ELSE IF Len(connections) > 0
    THEN TakeIdle(p)
    ELSE /\ pc' = [pc EXCEPT ![p] = "connect"]
         /\ lock' = p
         /\ UNCHANGED <<size, conns, connections, held, blocked, ev, strays>>

\* The goroutine calls Borrow and gets the mutex (inLock, conn.go:51).
BorrowEnter(p) ==
    /\ pc[p] = "out"
    /\ lock = NoProc
    /\ BorrowBody(p)
    /\ UNCHANGED <<fetchVars, codecVars, clientVars>>

\* Mutant of BorrowWake: "if" for "for", the woken goroutine goes on
\* without evaluating the loop condition again.
BorrowWakeNoRecheck(p) ==
    /\ pc[p] = "woken"
    /\ lock = NoProc
    /\ IF Len(connections) > 0
       THEN TakeIdle(p)
       ELSE /\ pc' = [pc EXCEPT ![p] = "connect"]
            /\ lock' = p
            /\ UNCHANGED <<size, conns, connections, held, blocked, ev, strays>>
    /\ UNCHANGED <<fetchVars, codecVars, clientVars>>

\* A goroutine woken by Broadcast gets the mutex back inside Wait() and
\* evaluates the loop condition again (conn.go:52-54).
BorrowWake(p) ==
    /\ pc[p] = "woken"
    /\ lock = NoProc
    /\ BorrowBody(p)
    /\ UNCHANGED <<fetchVars, codecVars, clientVars>>

\* connect() succeeds: a new connection, conns++ (conn.go:60-64, 79-94).
ConnectOk(p) ==
    /\ pc[p] = "connect"
    /\ lock = p
    /\ conns' = conns + 1
    /\ held' = [held EXCEPT ![p] = @ \cup {conns + 1}]
    /\ pc' = [pc EXCEPT ![p] = "out"]
    /\ blocked' = [blocked EXCEPT ![p] = FALSE]
    /\ lock' = NoProc
    /\ ev' = [op |-> "borrow", err |-> NoErr, blocked |-> blocked[p],
              opened |-> TRUE, afterFail |-> (ev.err # NoErr),
              accepted |-> FALSE]
    /\ UNCHANGED <<size, connections, strays>>
    /\ UNCHANGED <<fetchVars, codecVars, clientVars>>

\* Mutant of ConnectFail: conns++ before the error is looked at.
ConnectFailTakesSlot(p, e) ==
    /\ pc[p] = "connect"
    /\ lock = p
    /\ conns' = conns + 1
    /\ pc' = [pc EXCEPT ![p] = "out"]
    /\ blocked' = [blocked EXCEPT ![p] = FALSE]
    /\ lock' = NoProc
    /\ ev' = [op |-> "borrow", err |-> e, blocked |-> blocked[p],
              opened |-> FALSE, afterFail |-> FALSE, accepted |-> FALSE]
    /\ UNCHANGED <<size, connections, held, strays>>
    /\ UNCHANGED <<fetchVars, codecVars, clientVars>>

\* connect() fails in ResolveTCPAddr or in DialTCP: Borrow returns (nil, err)
\* (conn.go:61-63, 80-87).
ConnectFail(p, e) ==
    /\ pc[p] = "connect"
    /\ lock = p
    /\ pc' = [pc EXCEPT ![p] = "out"]
    /\ blocked' = [blocked EXCEPT ![p] = FALSE]
    /\ lock' = NoProc
    /\ ev' = [op |-> "borrow", err |-> e, blocked |-> blocked[p],
              opened |-> FALSE, afterFail |-> FALSE, accepted |-> FALSE]
    /\ UNCHANGED <<size, conns, connections, held, strays>>
    /\ UNCHANGED <<fetchVars, codecVars, clientVars>>

(***************************************************************************)
(* connectionPool.Return                                                   *)
(***************************************************************************)
\* The connections a goroutine may pass to Return: any pointer at all, that
\* is one it holds, one this pool opened that it does not hold, or a foreign
\* one.  At most MaxStray Returns pass a connection the caller does not hold.
Returnable(p) ==
    held[p] \cup (IF strays < MaxStray THEN (1..conns) \cup {Foreign} ELSE {})

\* Mutant of Broadcast: nobody is woken.
BroadcastWakesNone == pc

\* Mutant of Broadcast: Signal, one goroutine in Wait() is made runnable.
BroadcastWakesOne ==
    [q \in Procs |->
        IF pc[q] = "wait" /\ \A w \in Procs : pc[w] = "wait" => q <= w
        THEN "woken" ELSE pc[q]]

\* Broadcast (conn.go:74): every goroutine in Wait() is made runnable.
Broadcast == [q \in Procs |-> IF pc[q] = "wait" THEN "woken" ELSE pc[q]]

\* Mutant of Accepts: "<=" for "<".
AcceptsAtBound == Len(connections) <= conns

\* Whether Return enqueues the connection (conn.go:72).
Accepts == Len(connections) < conns

\* Return(c): the goroutine gets the mutex and runs the body (conn.go:70-77).
Return(p, c) ==
    /\ pc[p] = "out"
    /\ lock = NoProc
    /\ IF Accepts
       THEN /\ connections' = Append(connections, c)
            /\ pc' = Broadcast
       ELSE UNCHANGED <<connections, pc>>
    /\ held' = [held EXCEPT ![p] = @ \ {c}]
    /\ strays' = IF c \in held[p] THEN strays ELSE strays + 1
    /\ ev' = [op |-> "return", err |-> NoErr, blocked |-> FALSE,
              opened |-> FALSE, afterFail |-> FALSE, accepted |-> Accepts]
    /\ UNCHANGED <<size, conns, lock, blocked>>
    /\ UNCHANGED <<fetchVars, codecVars, clientVars>>

PoolNext ==
    \E p \in Procs :
        \/ BorrowEnter(p)
        \/ BorrowWake(p)
        \/ ConnectOk(p)
        \/ \E e \in ConnectErrs : ConnectFail(p, e)
        \/ \E c \in Returnable(p) : Return(p, c)

(***************************************************************************)
(* SaramaClient.Fetch, filterPartitionData, collectMessages                *)
(***************************************************************************)
Topics == {"orders", "clicks"}
Partitions == {0, 1}

\* A []*Message is [nil, elems]: the nil slice, as against the empty slice
\* make([]*Message, 0), and a slice of Messages.
NilSlice == [nil |-> TRUE, elems |-> <<>>]
Slice(elems) == [nil |-> FALSE, elems |-> elems]
\* A nil *sarama.MessageSet: the Msg.Set of an entry that wraps nothing.  A
\* non-nil one is [Messages |-> its entries].
NilSet == [nil |-> TRUE]

ErrNoError == "ErrNoError"
ErrOffsetOutOfRange == "ErrOffsetOutOfRange"
\* The error codes a response block may carry besides ErrNoError.
BlockErrs == {ErrOffsetOutOfRange, "ErrUnknownTopicOrPartition",
              "ErrNotLeaderForPartition"}
\* What client.Leader and leader.Fetch may fail with.
LeaderErrs == {"ErrLeaderNotAvailable"}
SendErrs == {"ErrBrokerNotConnected"}

\* The entries of an inner batch: the broker gives the n entries of the
\* inner batch of a wrapper at offset o the offsets o-n+1 .. o.  Keys and
\* values are tags that tell every entry of a batch from every other.
InnerSet(i, o, n) ==
    [j \in 1..n |-> [Offset |-> o - n + j,
                     Msg |-> [Key |-> <<"key", i, j>>,
                              Value |-> <<"value", i, j>>,
                              Set |-> NilSet]]]

\* A top-level entry at place i and offset o: plain (n = -1) or a wrapper
\* of n inner entries (n = 0: a wrapper of an empty inner batch).
Entry(i, o, n) ==
    [Offset |-> o,
     Msg |-> [Key |-> <<"key", i, 0>>,
              Value |-> <<"value", i, 0>>,
              Set |-> IF n < 0 THEN NilSet
                      ELSE [Messages |-> InnerSet(i, o, n)]]]

\* The message sets a broker sends: the offsets of the top-level entries
\* grow strictly, and the inner entries of a wrapper lie after the entry
\* before it.
RECURSIVE BatchesFrom(_, _, _)
BatchesFrom(i, lo, left) ==
    {<<>>} \cup
    (IF left = 0 THEN {}
     ELSE UNION {
            UNION {
              {<<Entry(i, o, n)>> \o rest : rest \in BatchesFrom(i + 1, o + 1, left - 1)}
              : n \in (-1)..(IF o - lo + 1 < MaxInner THEN o - lo + 1 ELSE MaxInner)}
            : o \in lo..MaxOffset})

Batches == BatchesFrom(1, 0, MaxBatch)

\* What the cluster may answer to one Fetch: no leader, a failed send, a nil
\* response, a response without blocks, or a response with the block of
\* the requested partition (an error code, or a message set).
Answers ==
    [kind : {"leader error"}, err : LeaderErrs]
    \cup [kind : {"send error"}, err : SendErrs]
    \cup [kind : {"nil response", "no blocks"}]
    \cup [kind : {"block"}, Err : BlockErrs]
    \cup [kind : {"block"}, Err : {ErrNoError}, Messages : Batches]

\* The Message made of an entry (low_level_client.go:175-181, 184-190).
MessageOf(e, topic, partition) ==
    [Key |-> e.Msg.Key, Value |-> e.Msg.Value, Topic |-> topic,
     Partition |-> partition, Offset |-> e.Offset]

\* The loop of filterPartitionData (low_level_client.go:158-165): the number
\* of leading entries below the requested offset, from entry i on.
RECURSIVE lowestCorrectIndex(_, _, _)
lowestCorrectIndex(messages, requestedOffset, i) ==
    IF i > Len(messages) THEN i - 1
    ELSE IF messages[i].Offset < requestedOffset
         THEN lowestCorrectIndex(messages, requestedOffset, i + 1)
         ELSE i - 1

\* Mutant of filterPartitionData: one entry too many is cut.
filterPartitionDataOneMore(messages, requestedOffset) ==
    SubSeq(messages, lowestCorrectIndex(messages, requestedOffset, 1) + 2,
           Len(messages))

\* filterPartitionData: the message set from lowestCorrectIndex on
\* (low_level_client.go:157-167).
filterPartitionData(messages, requestedOffset) ==
    SubSeq(messages, lowestCorrectIndex(messages, requestedOffset, 1) + 1,
           Len(messages))

\* The Messages of the entries of an inner batch, in order.
RECURSIVE wrappedMessages(_, _, _)
wrappedMessages(set, topic, partition) ==
    IF set = <<>> THEN <<>>
    ELSE <<MessageOf(Head(set), topic, partition)>>
         \o wrappedMessages(Tail(set), topic, partition)

\* Mutant of collectMessages: a wrapper's inner entries get the wrapper's
\* offset.
RECURSIVE collectMessagesWrapperOffset(_, _, _)
collectMessagesWrapperOffset(messages, topic, partition) ==
    IF messages = <<>> THEN <<>>
    ELSE LET message == Head(messages)
         IN  (IF message.Msg.Set # NilSet
              THEN [k \in 1..Len(message.Msg.Set.Messages) |->
                      [wrappedMessages(message.Msg.Set.Messages, topic,
                                       partition)[k]
                         EXCEPT !.Offset = message.Offset]]
              ELSE <<MessageOf(message, topic, partition)>>)
             \o collectMessagesWrapperOffset(Tail(messages), topic, partition)

\* collectMessages (low_level_client.go:169-195).
RECURSIVE collectMessages(_, _, _)
collectMessages(messages, topic, partition) ==
    IF messages = <<>> THEN <<>>
    ELSE LET message == Head(messages)
         IN  (IF message.Msg.Set # NilSet
              THEN wrappedMessages(message.Msg.Set.Messages, topic, partition)
              ELSE <<MessageOf(message, topic, partition)>>)
             \o collectMessages(Tail(messages), topic, partition)

\* The block of the fetch request (low_level_client.go:97).
RequestBlock(topic, partition, offset) ==
    [topic |-> topic, partition |-> partition, offset |-> offset]

\* What a Fetch leaves behind: the message set of the block, the returned
\* pair, the metadata refreshes and the requests sent.
Outcome(data, messages, err, refreshed, sent) ==
    [data |-> data, messages |-> messages, err |-> err,
     refreshes |-> refreshed, requests |-> sent]

\* client.Leader failed (low_level_client.go:87-91).
LeaderFailed(topic, err) ==
    Outcome(<<>>, NilSlice, err, <<topic>>, <<>>)

\* Mutant of SendFailed: the request is sent once more before giving up.
SendFailedAfterRetry(topic, err, sent) ==
    Outcome(<<>>, NilSlice, err, <<topic>>, sent \o sent)

\* leader.Fetch failed (low_level_client.go:99-103).
SendFailed(topic, err, sent) ==
    Outcome(<<>>, NilSlice, err, <<topic>>, sent)

\* Mutant of BlockFailed: the error is returned with no metadata refresh.
BlockFailedNoRefresh(topic, err, sent) ==
    Outcome(<<>>, NilSlice, err, <<>>, sent)

\* The block carries an error code (low_level_client.go:120-124).
BlockFailed(topic, err, sent) ==
    Outcome(<<>>, NilSlice, err, <<topic>>, sent)

\* The block carries ErrNoError (low_level_client.go:111-119).
BlockRead(topic, partition, offset, batch, sent) ==
    IF Len(batch) > 0
    THEN LET filtered == filterPartitionData(batch, offset)
         IN  Outcome(filtered,
                     Slice(collectMessages(filtered, topic, partition)),
                     NoErr, <<>>, sent)
    ELSE Outcome(batch, Slice(<<>>), NoErr, <<>>, sent)

\* Fetch(topic, partition, offset) with the cluster answering a
\* (low_level_client.go:86-131).
FetchOutcome(topic, partition, offset, a) ==
    IF a.kind = "leader error" THEN LeaderFailed(topic, a.err)
    ELSE LET sent == <<RequestBlock(topic, partition, offset)>>
         IN  IF a.kind = "send error" THEN SendFailed(topic, a.err, sent)
             ELSE IF a.kind \in {"nil response", "no blocks"}
                  THEN Outcome(<<>>, Slice(<<>>), NoErr, <<>>, sent)
             ELSE IF a.Err = ErrNoError
                  THEN BlockRead(topic, partition, offset, a.Messages, sent)
                  ELSE BlockFailed(topic, a.Err, sent)

NoCall == [topic |-> "", partition |-> 0, offset |-> 0,
           answer |-> [kind |-> "none"]]

FetchInit ==
    /\ fcall = NoCall
    /\ fdata = <<>>
    /\ fres = [messages |-> NilSlice, err |-> NoErr]
    /\ refreshes = <<>>
    /\ requests = <<>>

\* One call of Fetch.  The call before it has been forgotten: Fetch keeps
\* nothing from one call to the next.
Fetch(topic, partition, offset, a) ==
    LET out == FetchOutcome(topic, partition, offset, a)
    IN  /\ fcall = NoCall
        /\ fcall' = [topic |-> topic, partition |-> partition,
                     offset |-> offset, answer |-> a]
        /\ fdata' = out.data
        /\ fres' = [messages |-> out.messages, err |-> out.err]
        /\ refreshes' = out.refreshes
        /\ requests' = out.requests
        /\ UNCHANGED <<poolVars, codecVars, clientVars>>

\* The caller has taken the result of the last call.
FetchForget ==
    /\ fcall # NoCall
    /\ fcall' = NoCall
    /\ fdata' = <<>>
    /\ fres' = [messages |-> NilSlice, err |-> NoErr]
    /\ refreshes' = <<>>
    /\ requests' = <<>>
    /\ UNCHANGED <<poolVars, codecVars, clientVars>>

\* Any call of Fetch, with any answer of the cluster.
FetchCall ==
    /\ fcall = NoCall
    /\ \E topic \in Topics, partition \in Partitions,
          offset \in 0..MaxOffset, a \in Answers :
            Fetch(topic, partition, offset, a)

FetchNext == FetchCall \/ FetchForget

(***************************************************************************)
(* SiestaClient.Fetch, and IsOffsetOutOfRange and GetAvailableOffset of    *)
(* both clients                                                            *)
(***************************************************************************)
\* The two implementations of LowLevelClient.
Backends == {"sarama", "siesta"}

SiestaOffsetOutOfRange == "siesta.OffsetOutOfRange"
\* What connector.Consume may fail with.
SiestaErrs == {SiestaOffsetOutOfRange, "siesta.NotLeaderForPartition",
               "siesta.EOF"}

\* The n messages the connector hands back from the requested offset on.
SiestaMessages(topic, partition, offset, n) ==
    [j \in 1..n |-> [Key |-> <<"key", j, 0>>, Value |-> <<"value", j, 0>>,
                     Topic |-> topic, Partition |-> partition,
                     Offset |-> offset + j - 1]]

\* What connector.Consume may answer.
SiestaAnswers(topic, partition, offset) ==
    [kind : {"error"}, err : SiestaErrs]
    \cup [kind : {"messages"},
          messages : {SiestaMessages(topic, partition, offset, n) :
                        n \in 0..MaxInner}]

\* SiestaClient.Fetch (low_level_client.go:241-262): the error of
\* connector.Consume, or its messages copied one by one.
SiestaFetchOutcome(a) ==
    IF a.kind = "error"
    THEN [messages |-> NilSlice, err |-> a.err]
    ELSE [messages |->
            Slice([i \in 1..Len(a.messages) |->
                     [Key |-> a.messages[i].Key,
                      Value |-> a.messages[i].Value,
                      Topic |-> a.messages[i].Topic,
                      Partition |-> a.messages[i].Partition,
                      Offset |-> a.messages[i].Offset]]),
          err |-> NoErr]

\* The errors Fetch of a client may return to its caller, nil included.
FetchErrs(backend) ==
    IF backend = "sarama"
    THEN {FetchOutcome(topic, partition, 0, a).err :
            topic \in Topics, partition \in Partitions,
            a \in {b \in Answers : b.kind # "block" \/ b.Err # ErrNoError}}
         \cup {NoErr}
    ELSE {SiestaFetchOutcome(a).err : a \in SiestaAnswers("orders", 0, 0)}

\* Mutant of IsOffsetOutOfRange: every error is taken for the
\* offset-out-of-range error.
IsOffsetOutOfRangeAnyError(backend, err) == err # NoErr

\* SaramaClient.IsOffsetOutOfRange (low_level_client.go:133-136) and
\* SiestaClient.IsOffsetOutOfRange (low_level_client.go:264-267).
IsOffsetOutOfRange(backend, err) ==
    IF backend = "sarama"
    THEN err = ErrOffsetOutOfRange
    ELSE err = SiestaOffsetOutOfRange

\* The offsetTime strings a caller passes: the two the interface names and
\* another one.
OffsetTimes == {"smallest", "largest", "newest"}

\* sarama.LatestOffsets / siesta.LatestTime unless offsetTime is "smallest"
\* (low_level_client.go:140-143, 271-274).
TimeOf(offsetTime) ==
    IF offsetTime = "smallest" THEN "earliest" ELSE "latest"

QueryErrs == {"ErrUnknownTopicOrPartition", "ErrBrokerNotConnected"}

\* What the offset query of the library (client.GetOffset,
\* connector.GetAvailableOffset) may answer: an offset, or -1 and an error.
QueryAnswers ==
    [offset : 0..MaxOffset, err : {NoErr}]
    \cup [offset : {-1}, err : QueryErrs]

\* SaramaClient.GetAvailableOffset (low_level_client.go:139-150): a failed
\* query is answered with (-1, nil).
SaramaGetAvailableOffset(offsetTime, a) ==
    IF a.err # NoErr
    THEN [time |-> TimeOf(offsetTime), offset |-> -1, err |-> NoErr]
    ELSE [time |-> TimeOf(offsetTime), offset |-> a.offset, err |-> NoErr]

\* SiestaClient.GetAvailableOffset (low_level_client.go:270-276): what the
\* connector returns.
SiestaGetAvailableOffset(offsetTime, a) ==
    [time |-> TimeOf(offsetTime), offset |-> a.offset, err |-> a.err]

NoQuery == [called |-> FALSE, backend |-> "sarama", topic |-> "",
            partition |-> 0, offsetTime |-> "", answer |-> [offset |-> 0, err |-> NoErr],
            time |-> "", offset |-> 0, err |-> NoErr]

NoClassify == [called |-> FALSE, backend |-> "sarama", err |-> NoErr,
               result |-> FALSE]

ClientInit ==
    /\ goff = NoQuery
    /\ cls = NoClassify

\* One call of GetAvailableOffset on either client, the query answering a.
GetAvailableOffset(backend, topic, partition, offsetTime, a) ==
    LET out == IF backend = "sarama"
               THEN SaramaGetAvailableOffset(offsetTime, a)
               ELSE SiestaGetAvailableOffset(offsetTime, a)
    IN  /\ goff' = [called |-> TRUE, backend |-> backend, topic |-> topic,
                    partition |-> partition, offsetTime |-> offsetTime,
                    answer |-> a, time |-> out.time, offset |-> out.offset,
                    err |-> out.err]
        /\ UNCHANGED <<cls, poolVars, fetchVars, codecVars>>

GetAvailableOffsetCall ==
    /\ ~goff.called
    /\ \E backend \in Backends, topic \in Topics, partition \in Partitions,
          offsetTime \in OffsetTimes, a \in QueryAnswers :
            GetAvailableOffset(backend, topic, partition, offsetTime, a)

\* One call of IsOffsetOutOfRange on either client, with an error that
\* Fetch of either client returned, or nil.
IsOffsetOutOfRangeCall ==
    /\ ~cls.called
    /\ \E backend \in Backends, from \in Backends :
          \E err \in FetchErrs(from) :
            cls' = [called |-> TRUE, backend |-> backend, err |-> err,
                    result |-> IsOffsetOutOfRange(backend, err)]
    /\ UNCHANGED <<goff, poolVars, fetchVars, codecVars>>

\* The caller has taken the results.
ClientForget ==
    /\ goff.called \/ cls.called
    /\ goff' = NoQuery
    /\ cls' = NoClassify
    /\ UNCHANGED <<poolVars, fetchVars, codecVars>>

ClientNext == GetAvailableOffsetCall \/ IsOffsetOutOfRangeCall \/ ClientForget

(***************************************************************************)
(* KafkaAvroEncoder.Encode, KafkaAvroDecoder.Decode                        *)
(***************************************************************************)
\* A []byte is [nil, elems]: the nil slice, or a slice of bytes 0..255.
NilBytes == [nil |-> TRUE, elems |-> <<>>]
Bytes(elems) == [nil |-> FALSE, elems |-> elems]

\* magic_bytes (avro_encoder_decoder.go:26).
magic_bytes == <<0>>

\* Avro schemas: two versions of the record User, and the primitive bytes.
UserSchema ==
    [Type |-> "record", Name |-> "User",
     Fields |-> <<[Name |-> "name", Type |-> "string"],
                  [Name |-> "age", Type |-> "int"]>>]
UserSchema2 ==
    [Type |-> "record", Name |-> "User",
     Fields |-> <<[Name |-> "age", Type |-> "int"]>>]
BytesSchema == [Type |-> "bytes", Name |-> "bytes", Fields |-> <<>>]

\* Field values: strings as their UTF-8 bytes ("" and "al"), ints with a
\* one-byte and a two-byte encoding.
Strings == {<<>>, <<97, 108>>}
Ints == {-1, 30, 64}

\* The generic records given to Encode: every field of the schema is set
\* to a value of its type.
Records ==
    [schema : {UserSchema}, fields : [name : Strings, age : Ints]]
    \cup [schema : {UserSchema2}, fields : [age : Ints]]

\* The arguments of Encode: a generic record, a nil *GenericRecord, the
\* untyped nil, a string (a type getSchema knows) and a struct (a type it
\* does not know).
EncodeArgs ==
    [kind : {"record"}, record : Records]
    \cup [kind : {"nil record", "nil", "string", "struct"}]

\* ---- the schema registry (SchemaRegistryClient) ----
\* The ids the registry gives to the first, second and third schema it
\* sees: every byte of the 4-byte id matters in one of them.
RegistryIds == <<1, 258, 16909060>>

RegistryDown == "registry unreachable"
SchemaNotFound == "schema not found"

\* The place of a schema in the registry, 0 when it has not been registered.
PlaceOf(reg, subject, schema) ==
    IF \E k \in 1..Len(reg) : reg[k] = [subject |-> subject, schema |-> schema]
    THEN CHOOSE k \in 1..Len(reg) :
           reg[k] = [subject |-> subject, schema |-> schema]
    ELSE 0

\* Register(subject, schema): [id, err, registry after]; the same id for a
\* schema registered before under the subject.
Register(reg, subject, schema, up) ==
    IF ~up THEN [id |-> 0, err |-> RegistryDown, registry |-> reg]
    ELSE IF PlaceOf(reg, subject, schema) # 0
    THEN [id |-> RegistryIds[PlaceOf(reg, subject, schema)], err |-> NoErr,
          registry |-> reg]
    ELSE [id |-> RegistryIds[Len(reg) + 1], err |-> NoErr,
          registry |-> Append(reg, [subject |-> subject, schema |-> schema])]

\* GetByID(id): [schema, err].
GetByID(reg, id, up) ==
    IF ~up THEN [schema |-> BytesSchema, err |-> RegistryDown]
    ELSE IF \E k \in 1..Len(reg) : RegistryIds[k] = id
    THEN [schema |-> reg[CHOOSE k \in 1..Len(reg) : RegistryIds[k] = id].schema,
          err |-> NoErr]
    ELSE [schema |-> BytesSchema, err |-> SchemaNotFound]

\* ---- Avro's binary encoding (go-avro's datum writer and reader) ----
ZigZag(n) == IF n >= 0 THEN 2 * n ELSE -2 * n - 1
UnZigZag(u) == IF u % 2 = 0 THEN u \div 2 ELSE -((u + 1) \div 2)

RECURSIVE Varint(_)
Varint(u) == IF u < 128 THEN <<u>> ELSE <<128 + (u % 128)>> \o Varint(u \div 128)

\* The varint at place i of b: [ok, value, next].
RECURSIVE ReadVarint(_, _)
ReadVarint(b, i) ==
    IF i > Len(b) THEN [ok |-> FALSE, value |-> 0, next |-> i]
    ELSE IF b[i] < 128 THEN [ok |-> TRUE, value |-> b[i], next |-> i + 1]
    ELSE LET r == ReadVarint(b, i + 1)
         IN  [ok |-> r.ok, value |-> (b[i] - 128) + 128 * r.value,
              next |-> r.next]

WriteValue(type, v) ==
    IF type = "int" THEN Varint(ZigZag(v))
    ELSE Varint(ZigZag(Len(v))) \o v

\* The value of a type at place i of b: [ok, value, next].
ReadValue(type, b, i) ==
    LET n == ReadVarint(b, i)
    IN  IF type = "int"
        THEN [ok |-> n.ok, value |-> UnZigZag(n.value), next |-> n.next]
        ELSE LET len == UnZigZag(n.value)
             IN  IF n.ok /\ len >= 0 /\ n.next + len - 1 <= Len(b)
                 THEN [ok |-> TRUE,
                       value |-> SubSeq(b, n.next, n.next + len - 1),
                       next |-> n.next + len]
                 ELSE [ok |-> FALSE, value |-> <<>>, next |-> n.next]

\* The bytes of the fields of a record, field k on, in the schema's order.
RECURSIVE WriteFields(_, _, _)
WriteFields(schema, fields, k) ==
    IF k > Len(schema.Fields) THEN <<>>
    ELSE WriteValue(schema.Fields[k].Type, fields[schema.Fields[k].Name])
         \o WriteFields(schema, fields, k + 1)

\* writer.Write(record, enc) under a schema.
AvroWrite(schema, record) == WriteFields(schema, record.fields, 1)

\* The values of fields k.. of the schema read from place i of b:
\* [ok, values].
RECURSIVE ReadFields(_, _, _, _)
ReadFields(schema, b, k, i) ==
    IF k > Len(schema.Fields) THEN [ok |-> TRUE, values |-> <<>>]
    ELSE LET v == ReadValue(schema.Fields[k].Type, b, i)
         IN  IF ~v.ok THEN [ok |-> FALSE, values |-> <<>>]
             ELSE LET rest == ReadFields(schema, b, k + 1, v.next)
                  IN  [ok |-> rest.ok, values |-> <<v.value>> \o rest.values]

\* reader.Read(nil, decoder) under a schema: [ok, record].
AvroRead(schema, b) ==
    LET r == ReadFields(schema, b, 1, 1)
        place(n) == CHOOSE k \in 1..Len(schema.Fields) : schema.Fields[k].Name = n
    IN  [ok |-> r.ok,
         record |-> [schema |-> schema,
                     fields |-> IF r.ok
                                THEN [n \in {schema.Fields[k].Name :
                                               k \in 1..Len(schema.Fields)}
                                        |-> r.values[place(n)]]
                                ELSE <<>>]]

\* ---- the envelope ----
\* binary.BigEndian.PutUint32(idSlice, uint32(id)): the four bytes of the
\* two's complement of id, the highest first (avro_encoder_decoder.go:67-68).
PutUint32(id) ==
    <<(id \div 16777216) % 256, (id \div 65536) % 256, (id \div 256) % 256,
      id % 256>>

\* Mutant of Int32OfUint32: the four bytes read in little-endian order.
Int32LittleEndian(b) ==
    b[1] + 256 * b[2] + 65536 * b[3]
    + 16777216 * (IF b[4] >= 128 THEN b[4] - 256 ELSE b[4])

\* int32(binary.BigEndian.Uint32(b)) of a slice of at least four bytes
\* (avro_encoder_decoder.go:136): a first byte of 128 or more makes the
\* int32 negative.
Int32OfUint32(b) ==
    16777216 * (IF b[1] >= 128 THEN b[1] - 256 ELSE b[1])
    + 65536 * b[2] + 256 * b[3] + b[4]

\* b[from:], the slice from index from (counted from 0) on.
SliceFrom(b, from) == SubSeq(b, from + 1, Len(b))

\* What Encode and Decode return: a value is nil, a []byte or a record.
NilValue == [kind |-> "nil"]
NotRecord == "*GenericRecord is expected"
UnknownMagic == "Unknown magic byte!"
ReadErr == "avro: cannot read the datum"

\* The schemas NewKafkaAvroEncoder makes for the primitive types
\* (avro_encoder_decoder.go:34-42).
PrimitiveSchema(type) == [Type |-> type, Name |-> type, Fields |-> <<>>]

\* getSchema(obj) (avro_encoder_decoder.go:83-108): the schema of obj, or a
\* panic for a type it does not know (and for a nil *GenericRecord, whose
\* Schema() cannot be read).
getSchema(obj) ==
    IF obj.kind = "nil"
    THEN [panicked |-> FALSE, schema |-> PrimitiveSchema("null")]
    ELSE IF obj.kind = "string"
    THEN [panicked |-> FALSE, schema |-> PrimitiveSchema("string")]
    ELSE IF obj.kind = "record"
    THEN [panicked |-> FALSE, schema |-> obj.record.schema]
    ELSE [panicked |-> TRUE, schema |-> PrimitiveSchema("null")]

\* What Encode leaves behind: the returned pair, the registry, the subjects
\* it passed to Register, and whether it panicked.
Encoded(bytes, err, reg, registered, panicked) ==
    [bytes |-> bytes, err |-> err, registry |-> reg,
     registered |-> registered, panicked |-> panicked]

\* The case of a non-nil *GenericRecord (avro_encoder_decoder.go:57-76).
EncodeRecord(reg, obj, up) ==
    LET record == obj.record
        subject == record.schema.Name \o "-value"
        s == getSchema(obj)
    IN  IF s.panicked THEN Encoded(NilBytes, NoErr, reg, <<>>, TRUE)
        ELSE LET r == Register(reg, subject, s.schema, up)
             IN  IF r.err # NoErr
                 THEN Encoded(NilBytes, r.err, r.registry, <<subject>>, FALSE)
                 ELSE Encoded(Bytes(magic_bytes \o PutUint32(r.id)
                                    \o AvroWrite(s.schema, record)),
                              NoErr, r.registry, <<subject>>, FALSE)

\* Mutant of EncodeOutcome: the schema is looked up before the type switch.
EncodeOutcomeSchemaFirst(reg, obj, up) ==
    IF getSchema(obj).panicked
    THEN Encoded(NilBytes, NoErr, reg, <<>>, TRUE)
    ELSE IF obj.kind = "record" THEN EncodeRecord(reg, obj, up)
    ELSE Encoded(NilBytes, NotRecord, reg, <<>>, FALSE)

\* Encode(obj) (avro_encoder_decoder.go:50-81).
EncodeOutcome(reg, obj, up) ==
    IF obj.kind = "record" THEN EncodeRecord(reg, obj, up)
    ELSE IF obj.kind = "nil record"
    THEN Encoded(NilBytes, NoErr, reg, <<>>, FALSE)
    ELSE Encoded(NilBytes, NotRecord, reg, <<>>, FALSE)

\* Mutant of MagicOk: any first byte passes.
MagicOkAny(b) == TRUE

\* The test of the first byte in Decode (avro_encoder_decoder.go:133).
MagicOk(b) == b[1] = 0

\* What Decode leaves behind: the returned pair, whether it panicked, and
\* the ids it passed to GetByID.
Decoded(value, err, panicked, lookups) ==
    [value |-> value, err |-> err, panicked |-> panicked, lookups |-> lookups]

\* Decode(bytes) (avro_encoder_decoder.go:129-155).  bytes[0] of an empty
\* slice and Uint32 of fewer than four bytes panic (index out of range).
DecodeOutcome(reg, bytes, up) ==
    IF bytes.nil THEN Decoded(NilValue, NoErr, FALSE, <<>>)
    ELSE LET b == bytes.elems
         IN  IF Len(b) = 0 THEN Decoded(NilValue, NoErr, TRUE, <<>>)
             ELSE IF ~MagicOk(b) THEN Decoded(NilValue, UnknownMagic, FALSE, <<>>)
             ELSE IF Len(SliceFrom(b, 1)) < 4
                  THEN Decoded(NilValue, NoErr, TRUE, <<>>)
             ELSE LET id == Int32OfUint32(SliceFrom(b, 1))
                      g == GetByID(reg, id, up)
                  IN  IF g.err # NoErr
                      THEN Decoded(NilValue, g.err, FALSE, <<id>>)
                      ELSE IF g.schema.Type = "bytes"
                      THEN Decoded([kind |-> "bytes",
                                    bytes |-> SliceFrom(b, 5)],
                                   NoErr, FALSE, <<id>>)
                      ELSE LET v == AvroRead(g.schema, SliceFrom(b, 5))
                           IN  IF ~v.ok
                               THEN Decoded(NilValue, ReadErr, FALSE, <<id>>)
                               ELSE Decoded([kind |-> "record",
                                             record |-> v.record],
                                            NoErr, FALSE, <<id>>)

NoEncode == [called |-> FALSE, obj |-> [kind |-> "nil"], up |-> TRUE,
             bytes |-> NilBytes, err |-> NoErr, registered |-> <<>>,
             panicked |-> FALSE]
NoDecode == [called |-> FALSE, bytes |-> NilBytes, up |-> TRUE,
             value |-> NilValue, err |-> NoErr, panicked |-> FALSE,
             lookups |-> <<>>]

\* The registry starts with the bytes schema, registered by another client.
CodecInit ==
    /\ registry = <<[subject |-> "raw-value", schema |-> BytesSchema]>>
    /\ enc = NoEncode
    /\ dec = NoDecode

\* One call of Encode, the registry being reachable or not.
Encode(obj, up) ==
    LET out == EncodeOutcome(registry, obj, up)
    IN  /\ ~enc.called
        /\ ~dec.called
        /\ enc' = [called |-> TRUE, obj |-> obj, up |-> up,
                   bytes |-> out.bytes, err |-> out.err,
                   registered |-> out.registered,
                   panicked |-> out.panicked]
        /\ registry' = out.registry
        /\ UNCHANGED <<dec, poolVars, fetchVars, clientVars>>

\* The byte slices given to Decode: nil, empty, slices shorter than the
\* envelope's header, headers with a right and a wrong magic byte and a
\* known or an unknown id, the bytes the last Encode returned, and those
\* bytes with the magic byte changed or the last byte cut.
DecodeArgs ==
    {NilBytes, Bytes(<<>>), Bytes(<<0>>), Bytes(<<1>>), Bytes(<<0, 0, 0>>),
     Bytes(<<1, 0, 0>>), Bytes(<<0, 0, 0, 0, 1>>), Bytes(<<1, 0, 0, 0, 1>>),
     Bytes(<<0, 0, 0, 0, 1, 7, 9>>), Bytes(<<0, 0, 0, 0, 7>>),
     Bytes(<<0, 0, 0, 1, 2, 4>>), Bytes(<<0, 255, 255, 255, 255>>)}
    \cup (IF enc.called /\ ~enc.bytes.nil
          THEN {enc.bytes,
                Bytes([enc.bytes.elems EXCEPT ![1] = 1]),
                Bytes(SubSeq(enc.bytes.elems, 1, Len(enc.bytes.elems) - 1))}
          ELSE {})

\* One call of Decode, the registry being reachable or not.
Decode(bytes, up) ==
    LET out == DecodeOutcome(registry, bytes, up)
    IN  /\ ~dec.called
        /\ dec' = [called |-> TRUE, bytes |-> bytes, up |-> up,
                   value |-> out.value, err |-> out.err,
                   panicked |-> out.panicked, lookups |-> out.lookups]
        /\ UNCHANGED <<registry, enc, poolVars, fetchVars, clientVars>>

\* The caller has taken the results; the registry keeps its schemas.
CodecForget ==
    /\ dec.called \/ enc.called
    /\ enc' = NoEncode
    /\ dec' = NoDecode
    /\ UNCHANGED <<registry, poolVars, fetchVars, clientVars>>

\* Any call of Encode, the registry being reachable or not.
EncodeCall ==
    /\ ~enc.called
    /\ ~dec.called
    /\ \E obj \in EncodeArgs, up \in BOOLEAN : Encode(obj, up)

\* Any call of Decode, the registry being reachable or not.
DecodeCall ==
    /\ ~dec.called
    /\ \E bytes \in DecodeArgs, up \in BOOLEAN : Decode(bytes, up)

CodecNext == EncodeCall \/ DecodeCall \/ CodecForget

Init == PoolInit /\ FetchInit /\ CodecInit /\ ClientInit

Next == PoolNext

Spec == Init /\ [][Next]_vars

\* Fetch does not touch the pool: one pool is enough to look at Fetch.
OnePoolInit == Init /\ size = 1

FetchSpec == OnePoolInit /\ [][FetchNext]_vars

\* Nor do Encode and Decode.
CodecSpec == OnePoolInit /\ [][CodecNext]_vars

\* Nor do the hooks of the clients.
ClientSpec == OnePoolInit /\ [][ClientNext]_vars

(***************************************************************************)
(* The pool used by well-behaved clients under a fair scheduler: a client  *)
(* borrows when it holds nothing and returns what it holds.  Weak fairness *)
(* of a step stands for the Go scheduler running every runnable goroutine; *)
(* weak fairness of ReturnHeld stands for the hypothesis that a borrower   *)
(* eventually returns its connection.  No fairness is put on BorrowFresh:  *)
(* a client need not borrow again.  (While a goroutine waits, conns >=     *)
(* size, nobody is in connect() and the mutex is free whenever a step asks *)
(* for it, so strong fairness would add nothing.)                          *)
(***************************************************************************)
BorrowFresh(p) == held[p] = {} /\ BorrowEnter(p)

ReturnHeld(p) == \E c \in held[p] : Return(p, c)

ConnectEnds(p) == ConnectOk(p) \/ \E e \in ConnectErrs : ConnectFail(p, e)

FairNext ==
    \E p \in Procs :
        \/ BorrowFresh(p)
        \/ BorrowWake(p)
        \/ ConnectEnds(p)
        \/ ReturnHeld(p)

FairSpec ==
    /\ Init
    /\ [][FairNext]_vars
    /\ \A p \in Procs : WF_vars(BorrowWake(p))
    /\ \A p \in Procs : WF_vars(ConnectEnds(p))
    /\ \A p \in Procs : WF_vars(ReturnHeld(p))

(***************************************************************************)
(* The pool used by clients that borrow when they hold nothing and return  *)
(* what they hold, except that a client may call Return twice in a row     *)
(* with the connection it holds.  The two calls are taken one right after  *)
(* the other: one of the schedules of a goroutine that runs                *)
(* Return(c); Return(c).  At most MaxStray calls are second Returns.       *)
(***************************************************************************)
\* The idle queue after the body of Return has run on it with c
\* (conn.go:72-73).
Enqueue(q, c) == IF Len(q) < conns THEN Append(q, c) ELSE q

\* Return(c); Return(c) by a goroutine that holds c (conn.go:70-77, twice).
ReturnTwice(p, c) ==
    /\ pc[p] = "out"
    /\ lock = NoProc
    /\ c \in held[p]
    /\ strays < MaxStray
    /\ connections' = Enqueue(Enqueue(connections, c), c)
    /\ pc' = IF Accepts THEN Broadcast ELSE pc
    /\ held' = [held EXCEPT ![p] = @ \ {c}]
    /\ strays' = strays + 1
    /\ ev' = [op |-> "return", err |-> NoErr, blocked |-> FALSE,
              opened |-> FALSE, afterFail |-> FALSE,
              accepted |-> (Len(Enqueue(connections, c)) < conns)]
    /\ UNCHANGED <<size, conns, lock, blocked>>
    /\ UNCHANGED <<fetchVars, codecVars, clientVars>>

ReturnHeldTwice(p) == \E c \in held[p] : ReturnTwice(p, c)

DoubleReturnNext ==
    \E p \in Procs :
        \/ BorrowFresh(p)
        \/ BorrowWake(p)
        \/ ConnectEnds(p)
        \/ ReturnHeld(p)
        \/ ReturnHeldTwice(p)

DoubleReturnSpec == Init /\ [][DoubleReturnNext]_vars

(***************************************************************************)
(* Properties of the connection pool.                                      *)
(***************************************************************************)
\* The set of the elements of a sequence.
Range(q) == {q[i] : i \in 1..Len(q)}

\* C1: in every reachable state, whatever the interleaving of Borrow and
\* Return (dial failures and Returns of arbitrary connections included),
\* conns <= size and len(connections) <= conns.
C1_CapacityInvariant ==
    /\ conns <= size
    /\ Len(connections) <= conns

\* C1's case: the pool is full, its idle queue is at the bound, a stray
\* Return has happened and the last Return was turned down.
C1_Witness ==
    /\ conns = size
    /\ Len(connections) = conns
    /\ strays > 0
    /\ ev.op = "return"
    /\ ~ev.accepted

\* C2: a Borrow that had to wait leaves Wait() only in the step of a Return
\* that enqueued a connection, and when it returns it returns the head of
\* the idle queue with no error, conns unchanged and no connection opened.
C2_BlockedBorrowGetsReturned ==
    [][\A p \in Procs :
        /\ (pc[p] = "wait" /\ pc'[p] # "wait")
              => /\ ev'.op = "return"
                 /\ ev'.accepted
                 /\ Len(connections') = Len(connections) + 1
        /\ (blocked[p] /\ pc'[p] = "out")
              => /\ Len(connections) > 0
                 /\ connections' = Tail(connections)
                 /\ held'[p] = held[p] \cup {Head(connections)}
                 /\ conns' = conns
                 /\ ev'.op = "borrow"
                 /\ ev'.err = NoErr
                 /\ ~ev'.opened]_vars

\* C2's case: with capacity 1, a Borrow that had been in Wait() has returned
\* a connection.
C2_Witness ==
    /\ size = 1
    /\ ev.op = "borrow"
    /\ ev.blocked
    /\ ev.err = NoErr
    /\ \E p \in Procs : held[p] # {}

\* C6: the steps of a Borrow whose connect() fails (going into connect(),
\* and connect() failing) leave conns, the idle queue and what every
\* goroutine holds as they were, and the caller gets the error.
C6_FailedConnectLeavesPool ==
    [][\A p \in Procs :
        /\ pc'[p] = "connect" => UNCHANGED <<conns, connections, held>>
        /\ (pc[p] = "connect" /\ pc'[p] = "out" /\ ev'.err # NoErr)
              => /\ UNCHANGED <<conns, connections, held>>
                 /\ ev'.op = "borrow"
                 /\ ev'.err \in ConnectErrs
                 /\ ~ev'.opened]_vars

\* C6's case: a Borrow failed in connect() and the next call, a Borrow,
\* opened a connection.
C6_Witness ==
    /\ ev.op = "borrow"
    /\ ev.opened
    /\ ev.afterFail
    /\ conns >= 1

\* C10: while every Return has passed a connection its caller held, no
\* connection is held by two goroutines, no held connection is in the idle
\* queue, and every connection opened is idle (once) or held.
C10_ExclusiveOwnership ==
    strays = 0 =>
        /\ \A p, q \in Procs : p # q => held[p] \cap held[q] = {}
        /\ \A p \in Procs : held[p] \cap Range(connections) = {}
        /\ \A i, j \in 1..Len(connections) :
              i # j => connections[i] # connections[j]
        /\ \A c \in 1..conns :
              c \in Range(connections) \/ \E p \in Procs : c \in held[p]

\* C10's case: two connections are out, one held and one idle again after
\* its holder returned it, and every Return so far was of a held connection.
C10_Witness ==
    /\ strays = 0
    /\ conns = 2
    /\ Len(connections) = 1
    /\ \E p \in Procs : held[p] # {}
    /\ ev.op = "return"

\* C9 as stated: under fair scheduling with every borrowed connection
\* returned, every Borrow that is in Wait() eventually returns a connection.
C9_EveryBlockedBorrowReturns ==
    \A p \in Procs : (pc[p] = "wait") ~> (pc[p] = "out" /\ held[p] # {})

\* C9 amended: under fair scheduling with every borrowed connection
\* returned, every Borrow in Wait() is eventually woken by a Return and
\* evaluates its loop condition again (it may find the queue emptied by
\* another Borrow and wait again, any number of times); and no Borrow that
\* found the pool exhausted returns an error.
C9_BlockedBorrowIsWoken ==
    /\ \A p \in Procs : (pc[p] = "wait") ~> (pc[p] # "wait")
    /\ [](ev.op = "borrow" /\ ev.err # NoErr => ~ev.blocked)
    /\ [][\A p \in Procs :
            (pc[p] \in {"wait", "woken"} /\ pc'[p] = "out")
                => (ev'.err = NoErr /\ held'[p] # {})]_vars

\* C9's case: the pool is exhausted, one Borrow is in Wait() and another
\* Borrow that had been in Wait() has got the returned connection.
C9_Witness ==
    /\ conns = size
    /\ connections = <<>>
    /\ \E p \in Procs : pc[p] = "wait"
    /\ ev.op = "borrow"
    /\ ev.blocked

(***************************************************************************)
(* Properties of SaramaClient.Fetch.                                       *)
(***************************************************************************)
\* The last Fetch got an error-free block with a non-empty message set.
GotBatch ==
    /\ fcall.answer.kind = "block"
    /\ fcall.answer.Err = ErrNoError
    /\ Len(fcall.answer.Messages) > 0

\* The last Fetch failed: no leader, a failed send or an error code.
GotFailure ==
    \/ fcall.answer.kind \in {"leader error", "send error"}
    \/ fcall.answer.kind = "block" /\ fcall.answer.Err # ErrNoError

Offsets(q) == [i \in 1..Len(q) |-> q[i].Offset]

IsWrapper(e) == e.Msg.Set # NilSet

\* C3: after a Fetch that got an error-free block with a non-empty message
\* set, the block holds, in order, the top-level entries whose offset is at
\* least the requested offset and no other; when no entry is a wrapper the
\* records returned have the offsets of those entries.
C3_OffsetCorrection ==
    GotBatch =>
        LET kept == SelectSeq(fcall.answer.Messages,
                              LAMBDA e : e.Offset >= fcall.offset)
        IN  /\ fdata = kept
            /\ fres.err = NoErr
            /\ (\A i \in 1..Len(kept) : ~IsWrapper(kept[i]))
                 => Offsets(fres.messages.elems) = Offsets(kept)

\* C3's case: of three plain entries at offsets 2, 3, 4 and a requested
\* offset 3, the records at 3 and 4 came back.
C3_Witness ==
    /\ GotBatch
    /\ Offsets(fcall.answer.Messages) = <<2, 3, 4>>
    /\ \A i \in 1..3 : ~IsWrapper(fcall.answer.Messages[i])
    /\ fcall.offset = 3
    /\ Offsets(fres.messages.elems) = <<3, 4>>

\* The number of records an entry stands for.
Width(e) == IF IsWrapper(e) THEN Len(e.Msg.Set.Messages) ELSE 1

\* The number of records the first k entries of q stand for.
RECURSIVE WidthUpTo(_, _)
WidthUpTo(q, k) == IF k = 0 THEN 0 ELSE WidthUpTo(q, k - 1) + Width(q[k])

\* C4: the records returned are one per inner entry of every surviving
\* wrapper (with the inner entry's offset, key and value) and one per
\* surviving plain entry, in the order of the batch, and nothing else.
C4_NestedUnwrap ==
    GotBatch =>
        LET out == fres.messages.elems
            rec(e) == [Key |-> e.Msg.Key, Value |-> e.Msg.Value,
                       Topic |-> fcall.topic, Partition |-> fcall.partition,
                       Offset |-> e.Offset]
        IN  /\ ~fres.messages.nil
            /\ Len(out) = WidthUpTo(fdata, Len(fdata))
            /\ \A k \in 1..Len(fdata) :
                  LET e == fdata[k]
                      base == WidthUpTo(fdata, k - 1)
                  IN  IF IsWrapper(e)
                      THEN \A j \in 1..Len(e.Msg.Set.Messages) :
                             out[base + j] = rec(e.Msg.Set.Messages[j])
                      ELSE out[base + 1] = rec(e)

\* C4's case: a wrapper of two inner entries and a plain entry survived the
\* offset correction and three records came back.
C4_Witness ==
    /\ GotBatch
    /\ Len(fdata) = 2
    /\ IsWrapper(fdata[1])
    /\ Len(fdata[1].Msg.Set.Messages) = 2
    /\ ~IsWrapper(fdata[2])
    /\ Len(fres.messages.elems) = 3
    /\ Len(fcall.answer.Messages) = 3

\* C7: a Fetch that found no leader, could not send, or got an error code
\* refreshed the metadata of the requested topic and returned that error
\* with a nil slice; no Fetch returns records together with an error.
C7_FailurePaths ==
    /\ GotFailure =>
          /\ fres.messages = NilSlice
          /\ fres.err = (IF fcall.answer.kind = "block"
                         THEN fcall.answer.Err ELSE fcall.answer.err)
          /\ refreshes = <<fcall.topic>>
    /\ fres.err # NoErr => fres.messages = NilSlice

\* C7's case: the block carried ErrOffsetOutOfRange.
C7_Witness ==
    /\ fcall.answer.kind = "block"
    /\ fcall.answer.Err = ErrOffsetOutOfRange
    /\ fres.err = ErrOffsetOutOfRange
    /\ refreshes = <<fcall.topic>>

(***************************************************************************)
(* Properties of the Avro codec.                                           *)
(***************************************************************************)
\* The last Decode was given the bytes that the last Encode made of a
\* generic record, and the registry answered both.
RoundTrip ==
    /\ enc.called
    /\ enc.obj.kind = "record"
    /\ enc.err = NoErr
    /\ dec.called
    /\ dec.bytes = enc.bytes
    /\ dec.up

\* The id the registry has for the schema of a record.
RegisteredId(record) ==
    RegistryIds[PlaceOf(registry, record.schema.Name \o "-value",
                        record.schema)]

BadMagic ==
    /\ dec.called
    /\ ~dec.bytes.nil
    /\ Len(dec.bytes.elems) >= 1
    /\ dec.bytes.elems[1] # 0

\* C8: Decode of a non-nil slice whose first byte is not 0 returns the
\* unknown-magic-byte error and no value, and asks the registry nothing.
C8_MagicByteRejection ==
    BadMagic =>
        /\ dec.err = UnknownMagic
        /\ dec.value = NilValue
        /\ dec.lookups = <<>>
        /\ ~dec.panicked

\* C8's case: Decode was given an envelope of a registered id with the
\* magic byte 1.
C8_Witness ==
    /\ BadMagic
    /\ dec.bytes = Bytes(<<1, 0, 0, 0, 1>>)
    /\ dec.up
    /\ dec.err = UnknownMagic

\* C11: Decode never panics: whatever bytes it is given, an empty non-nil
\* slice and a slice shorter than the 5-byte header included, it returns a
\* value or an error.
C11_DecodeNeverPanics == dec.called => ~dec.panicked

(***************************************************************************)
(* Properties of the hooks of the clients.                                 *)
(***************************************************************************)
\* C12: on both clients, a GetAvailableOffset whose offset query failed
\* returns a non-nil error.
C12_OffsetQueryErrorReturned ==
    (goff.called /\ goff.answer.err # NoErr) => goff.err # NoErr

\* The error Fetch of a client returns when the broker rejects the
\* requested offset.
RejectedOffsetErr(backend) ==
    IF backend = "sarama"
    THEN FetchOutcome("orders", 0, 0,
                      [kind |-> "block", Err |-> ErrOffsetOutOfRange]).err
    ELSE SiestaFetchOutcome([kind |-> "error",
                             err |-> SiestaOffsetOutOfRange]).err

\* C16: on each client, IsOffsetOutOfRange(err) is true exactly when err is
\* the error that client's Fetch returns for a rejected offset, and false
\* for every other error, nil and the other client's errors included.
C16_ErrorClassification ==
    cls.called =>
        /\ cls.result <=> (cls.err = RejectedOffsetErr(cls.backend))
        /\ cls.err = NoErr => ~cls.result

\* C16's case: the Siesta client was asked about the error its Fetch
\* returns for a rejected offset and said yes.
C16_Witness ==
    /\ cls.called
    /\ cls.backend = "siesta"
    /\ cls.err = RejectedOffsetErr("siesta")
    /\ cls.result

(***************************************************************************)
(* More properties of the connection pool.                                 *)
(***************************************************************************)
\* C13: Return never blocks: in every reachable state a goroutine that
\* holds a connection and is in no call can run Return to its end, without
\* any other goroutine taking a step first, also while others are in
\* Borrow, in Wait() or in connect().
C13_ReturnNeverBlocks ==
    \A p \in Procs :
        (pc[p] = "out" /\ held[p] # {}) => ENABLED ReturnHeld(p)

\* C14: the idle queue is first in, first out, and reuse comes before
\* opening: a step that shortens the queue is a Borrow that takes its head
\* and opens nothing; a step that lengthens it appends at the tail; and a
\* Borrow goes to Wait() or to connect(), and a connection is opened, only
\* when the queue is empty, so that with a connection idle Borrow returns
\* the head, also when conns < size.
C14_FifoIdleReuse ==
    [][/\ Len(connections') < Len(connections) =>
            /\ connections' = Tail(connections)
            /\ conns' = conns
            /\ ev'.op = "borrow" /\ ev'.err = NoErr /\ ~ev'.opened
            /\ \E p \in Procs :
                  /\ pc[p] \in {"out", "woken"}
                  /\ pc'[p] = "out"
                  /\ held'[p] = held[p] \cup {Head(connections)}
                  /\ \A q \in Procs \ {p} : held'[q] = held[q]
       /\ Len(connections') > Len(connections) =>
            /\ SubSeq(connections', 1, Len(connections)) = connections
            /\ Len(connections') = Len(connections) + 1
            /\ ev'.op = "return"
       /\ \A p \in Procs :
            (pc[p] \in {"out", "woken"} /\ pc'[p] \in {"wait", "connect"})
                => connections = <<>>
       /\ conns' # conns => connections = <<>>
      ]_vars

\* C14's case: a Borrow has taken an idle connection and opened none
\* while conns < size.
C14_Witness ==
    /\ ev.op = "borrow"
    /\ ev.err = NoErr
    /\ ~ev.opened
    /\ conns < size
    /\ \E p \in Procs : held[p] # {}

\* A step of Return: the last completed call is a Return, and the caller
\* gave up a connection it held or passed one it did not hold.
IsReturnStep == ev'.op = "return" /\ (held' # held \/ strays' # strays)

\* C15: a Return issued when Len(connections) = conns is rejected: it
\* leaves the idle queue and conns as they were and wakes nobody.
C15_ReturnAtBoundRejected ==
    [][(IsReturnStep /\ Len(connections) = conns) =>
            /\ connections' = connections
            /\ conns' = conns
            /\ pc' = pc
            /\ ~ev'.accepted]_vars

\* C15's case: capacity 1, the one connection c1 is idle, and a Return of
\* another connection (or of c1 again) has been rejected.
C15_Witness ==
    /\ size = 1
    /\ conns = 1
    /\ connections = <<1>>
    /\ ev.op = "return"
    /\ ~ev.accepted
    /\ strays > 0

\* C19: no wake-up is lost.  While the mutex is free, a goroutine is in
\* Wait(), not yet woken, only if the idle queue is empty and conns >= size.
\* A woken goroutine evaluates the loop condition again: it waits again
\* when the queue is empty, and otherwise it alone gets the head of the
\* queue, so that of the waiters woken for one connection one obtains it.
\* A Borrow that ends without error has given its caller a connection.
C19_NoLostWakeup ==
    /\ [](lock = NoProc =>
            \A p \in Procs :
                pc[p] = "wait" => (connections = <<>> /\ conns >= size))
    /\ [][\A p \in Procs :
            (pc[p] = "woken" /\ pc'[p] # "woken") =>
                IF connections = <<>>
                THEN /\ pc'[p] = "wait"
                     /\ held' = held
                     /\ connections' = connections
                     /\ conns' = conns
                ELSE /\ pc'[p] = "out"
                     /\ connections' = Tail(connections)
                     /\ held'[p] = held[p] \cup {Head(connections)}
                     /\ \A q \in Procs \ {p} : held'[q] = held[q]
                     /\ ev'.op = "borrow" /\ ev'.err = NoErr]_vars
    /\ [][\A p \in Procs :
            (pc[p] \in {"woken", "connect"} /\ pc'[p] = "out"
             /\ ev'.err = NoErr) => held'[p] # {}]_vars

\* C19's case: two waiters were woken for one connection, one of them has
\* got it, and the other, woken, finds the queue empty.
C19_Witness ==
    /\ connections = <<>>
    /\ conns = size
    /\ ev.op = "borrow"
    /\ ev.blocked
    /\ ~ev.opened
    /\ \E p \in Procs : pc[p] = "woken"

\* C20: also when a borrower calls Return twice with the same connection,
\* the idle queue never holds a connection twice and no connection is held
\* by two borrowers at once.
C20_NoDoubleHandOut ==
    /\ \A i, j \in 1..Len(connections) :
          i # j => connections[i] # connections[j]
    /\ \A p, q \in Procs : p # q => held[p] \cap held[q] = {}

(***************************************************************************)
(* More properties of the Avro codec.                                      *)
(***************************************************************************)
\* C17: Encode of a nil record returns (nil, nil) and Encode of anything
\* that is not a generic record returns an error; neither contacts the
\* registry, makes bytes or panics.  Encode of a record whose registration
\* fails returns the registry's error and no bytes.
C17_EncodeAcceptsOnlyRecords ==
    enc.called =>
        /\ enc.obj.kind = "nil record" =>
              /\ enc.bytes = NilBytes /\ enc.err = NoErr
              /\ enc.registered = <<>> /\ ~enc.panicked
        /\ enc.obj.kind \notin {"record", "nil record"} =>
              /\ enc.bytes = NilBytes /\ enc.err = NotRecord
              /\ enc.registered = <<>> /\ ~enc.panicked
        /\ (enc.obj.kind = "record" /\ ~enc.up) =>
              /\ enc.bytes = NilBytes /\ enc.err = RegistryDown
              /\ ~enc.panicked
        /\ (enc.obj.kind = "record" /\ enc.up) =>
              /\ ~enc.bytes.nil /\ enc.err = NoErr

\* C17's case: Encode was given a value of a type getSchema does not know.
C17_Witness ==
    /\ enc.called
    /\ enc.obj.kind = "struct"
    /\ enc.err = NotRecord
    /\ enc.bytes = NilBytes
    /\ enc.registered = <<>>
    /\ ~enc.panicked

(***************************************************************************)
(* More properties of SaramaClient.Fetch.                                  *)
(***************************************************************************)
\* C18: a Fetch sends one request when it found the leader and none when
\* it did not, the request has the one block of the requested topic,
\* partition and offset, and a Fetch that returns no error refreshes no
\* metadata.
C18_NoInternalRetry ==
    fcall # NoCall =>
        /\ Len(requests) = (IF fcall.answer.kind = "leader error" THEN 0 ELSE 1)
        /\ \A i \in 1..Len(requests) :
              requests[i] = [topic |-> fcall.topic,
                             partition |-> fcall.partition,
                             offset |-> fcall.offset]
        /\ fres.err = NoErr => refreshes = <<>>
        /\ Len(refreshes) <= 1

\* C18's case: the one request of a Fetch failed in sending and was not
\* sent again.
C18_Witness ==
    /\ fcall # NoCall
    /\ fcall.answer.kind = "send error"
    /\ fres.err = fcall.answer.err
    /\ Len(requests) = 1

\* C21: every record a Fetch returns without error has an offset at or
\* above the requested offset, the records unwrapped from a wrapper entry
\* that passed filterPartitionData included.
C21_ReturnedOffsetsAtLeastRequested ==
    (fcall # NoCall /\ fres.err = NoErr) =>
        \A i \in 1..Len(fres.messages.elems) :
            fres.messages.elems[i].Offset >= fcall.offset

=============================================================================
